---- MODULE Spec2Model ----
(***************************************************************************)
(* A model of the TOTP library in src/src/lib.rs.                          *)
(*                                                                         *)
(* Representation of the Rust values:                                      *)
(*   - &str / String : a sequence of one-character strings                 *)
(*   - u8            : a natural number in 0..255                          *)
(*   - u64           : its 8 bytes, most significant first (the values of  *)
(*                     the library exceed the integers of the checker)     *)
(*   - [u8; 20], Vec<u8> : a sequence of bytes                             *)
(*   - Result<T, TOTPError> : a record with the fields tag, val, reason    *)
(***************************************************************************)
EXTENDS Integers, Sequences, FiniteSets, TLC

VARIABLES
    clock,      \* the system clock read by SystemTime::now()
    cur,        \* the last call of the sequential caller and what it returned
    th,         \* per thread: the call in progress, its locals, its result
    pipe        \* a digest on its way through hash_to_code and code_to_str

vars == <<clock, cur, th, pipe>>

-----------------------------------------------------------------------------
(* Results and errors (lib.rs 8-17).                                       *)

InvalidKey == "InvalidKey"
InvalidTime == "InvalidTime"

Ok(v) == [tag |-> "Ok", val |-> v, reason |-> "none"]
Err(r) == [tag |-> "Err", val |-> <<>>, reason |-> r]
\* a panic of the thread that runs the call (index out of bounds, overflow)
Panic(r) == [tag |-> "Panic", val |-> <<>>, reason |-> r]

-----------------------------------------------------------------------------
(* Bit operations on naturals.                                             *)

RECURSIVE BitXor(_, _)
BitXor(a, b) ==
    IF a = 0 THEN b
    ELSE IF b = 0 THEN a
    ELSE ((a + b) % 2) + 2 * BitXor(a \div 2, b \div 2)

RECURSIVE BitAnd(_, _)
BitAnd(a, b) ==
    IF a = 0 \/ b = 0 THEN 0
    ELSE (a % 2) * (b % 2) + 2 * BitAnd(a \div 2, b \div 2)

RECURSIVE BitOr(_, _)
BitOr(a, b) ==
    IF a = 0 THEN b
    ELSE IF b = 0 THEN a
    ELSE (IF a % 2 = 1 \/ b % 2 = 1 THEN 1 ELSE 0) + 2 * BitOr(a \div 2, b \div 2)

\* x << n on a u64 whose value stays below 2^31
Shl(x, n) == x * (2 ^ n)

-----------------------------------------------------------------------------
(* u64 arithmetic on the 8 big-endian bytes.                               *)

\* the u64 of a natural number below 2^31
U64(n) ==
    <<0, 0, 0, 0, (n \div 16777216) % 256, (n \div 65536) % 256, (n \div 256) % 256, n % 256>>

\* u64::MAX
U64_MAX == <<255, 255, 255, 255, 255, 255, 255, 255>>

\* mutant: the bytes least significant first (to_le_bytes)
to_le_bytes(x) == [i \in 1..Len(x) |-> x[Len(x) + 1 - i]]

\* u64::to_be_bytes
to_be_bytes(x) == x

\* x / d for a small divisor d: long division, most significant byte first.
\* st = <<quotient bytes so far, remainder>>
RECURSIVE U64DivStep(_, _, _)
U64DivStep(x, d, st) ==
    LET i == Len(st[1]) + 1
    IN  IF i > Len(x) THEN st
        ELSE LET n == st[2] * 256 + x[i]
             IN  U64DivStep(x, d, <<Append(st[1], n \div d), n % d>>)

U64Div(x, d) == U64DivStep(x, d, <<(<<>>), 0>>)[1]

\* x + n for a small n: <<carry out of the top byte, the 8 bytes of the sum>>
RECURSIVE U64AddStep(_, _)
U64AddStep(x, st) ==
    LET i == Len(x) - Len(st[2])
    IN  IF i < 1 THEN st
        ELSE LET s == x[i] + st[1]
             IN  U64AddStep(x, <<s \div 256, <<s % 256>> \o st[2]>>)

U64Add(x, n) == U64AddStep(x, <<n, (<<>>)>>)

-----------------------------------------------------------------------------
(* SHA-1 and HMAC-SHA1 (hmacsha1::hmac_sha1, called at lib.rs 36).  A      *)
(* 32-bit word is the pair <<high 16 bits, low 16 bits>>.                  *)

WXor(x, y) == <<BitXor(x[1], y[1]), BitXor(x[2], y[2])>>
WAnd(x, y) == <<BitAnd(x[1], y[1]), BitAnd(x[2], y[2])>>
WOr(x, y) == <<BitOr(x[1], y[1]), BitOr(x[2], y[2])>>
WNot(x) == <<65535 - x[1], 65535 - x[2]>>

\* wrapping addition of two words
WAdd(x, y) ==
    LET lo == x[2] + y[2]
        hi == x[1] + y[1] + (lo \div 65536)
    IN  <<hi % 65536, lo % 65536>>

\* rotate left by n bits, 0 < n < 16
WRotl(x, n) ==
    LET p == 2 ^ n
        q == 2 ^ (16 - n)
    IN  <<((x[1] * p) % 65536) + (x[2] \div q), ((x[2] * p) % 65536) + (x[1] \div q)>>

\* rotate left by 30 bits: swap the halves (16 bits), then 14 more
WRotl30(x) == WRotl(<<x[2], x[1]>>, 14)

\* the four bytes of a word, most significant first
WBytes(x) == <<x[1] \div 256, x[1] % 256, x[2] \div 256, x[2] % 256>>

Zeros(n) == [i \in 1..n |-> 0]

\* the message, 0x80, zeros up to 56 mod 64, the bit length as 8 bytes
Sha1Pad(msg) ==
    LET n == Len(msg)
        z == (119 - (n % 64)) % 64
        bits == n * 8
    IN  msg \o <<128>> \o Zeros(z) \o U64(bits)

\* the 16 words of the 64-byte block that starts after byte off
BlockWords(m, off) ==
    [i \in 1..16 |-> <<m[off + 4 * i - 3] * 256 + m[off + 4 * i - 2],
                       m[off + 4 * i - 1] * 256 + m[off + 4 * i]>>]

\* the message schedule: w extended up to n words
RECURSIVE ExpandTo(_, _)
ExpandTo(w, n) ==
    LET i == Len(w) + 1
    IN  IF i > n THEN w
        ELSE ExpandTo(Append(w,
                 WRotl(WXor(WXor(w[i - 3], w[i - 8]), WXor(w[i - 14], w[i - 16])), 1)), n)

\* 16 words extended to 80, 16 words at a time
RECURSIVE Expand(_)
Expand(w) == IF Len(w) >= 80 THEN w ELSE Expand(ExpandTo(w, Len(w) + 16))

\* the round function of round i (1..80)
Sha1F(i, b, c, d) ==
    IF i <= 20 THEN WOr(WAnd(b, c), WAnd(WNot(b), d))
    ELSE IF i <= 40 THEN WXor(WXor(b, c), d)
    ELSE IF i <= 60 THEN WOr(WOr(WAnd(b, c), WAnd(b, d)), WAnd(c, d))
    ELSE WXor(WXor(b, c), d)

\* the round constant of round i: 5A827999, 6ED9EBA1, 8F1BBCDC, CA62C1D6
Sha1K(i) ==
    IF i <= 20 THEN <<23170, 31129>>
    ELSE IF i <= 40 THEN <<28377, 60321>>
    ELSE IF i <= 60 THEN <<36635, 48348>>
    ELSE <<51810, 49622>>

\* the rounds up to round n.  st = <<a, b, c, d, e, next round>>
RECURSIVE RoundsTo(_, _, _)
RoundsTo(st, w, n) ==
    LET i == st[6]
    IN  IF i > n THEN st
        ELSE LET t == WAdd(WAdd(WAdd(WAdd(WRotl(st[1], 5),
                                          Sha1F(i, st[2], st[3], st[4])),
                                     st[5]), Sha1K(i)), w[i])
             IN  RoundsTo(<<t, st[1], WRotl30(st[2]), st[3], st[4], i + 1>>, w, n)

\* the 80 rounds, in the four groups of 20 that share a round function
RECURSIVE Rounds(_, _)
Rounds(st, w) == IF st[6] > 80 THEN st ELSE Rounds(RoundsTo(st, w, st[6] + 19), w)

\* 67452301 EFCDAB89 98BADCFE 10325476 C3D2E1F0
Sha1Init ==
    <<(<<26437, 8961>>), (<<61389, 43913>>), (<<39098, 56574>>), (<<4146, 21622>>),
      (<<50130, 57840>>)>>

\* the chaining value h plus the state r the rounds end in
AddState(h, r) ==
    <<WAdd(h[1], r[1]), WAdd(h[2], r[2]), WAdd(h[3], r[3]), WAdd(h[4], r[4]),
      WAdd(h[5], r[5])>>

Compress(h, m, off) ==
    AddState(h, Rounds(<<h[1], h[2], h[3], h[4], h[5], 1>>, Expand(BlockWords(m, off))))

\* st = <<chaining value, bytes consumed>>
RECURSIVE Blocks(_, _)
Blocks(st, m) ==
    IF st[2] >= Len(m) THEN st[1]
    ELSE Blocks(<<Compress(st[1], m, st[2]), st[2] + 64>>, m)

\* the 20 bytes of a chaining value
DigestBytes(h) ==
    WBytes(h[1]) \o WBytes(h[2]) \o WBytes(h[3]) \o WBytes(h[4]) \o WBytes(h[5])

sha1(msg) == DigestBytes(Blocks(<<Sha1Init, 0>>, Sha1Pad(msg)))

\* a key of at most 64 bytes, zero filled to the 64-byte block of SHA-1
PadKey(k) == k \o Zeros(64 - Len(k))

\* every byte of the key block xored with the pad byte
XorPad(auth_key, pad) == [i \in 1..64 |-> BitXor(auth_key[i], pad)]

\* the outer hash over the inner hash, ipad 0x36 and opad 0x5c
HmacOfBlock(auth_key, message) ==
    sha1(XorPad(auth_key, 92) \o sha1(XorPad(auth_key, 54) \o message))

\* HMAC (RFC 2104): a key longer than the block is hashed first
hmac_sha1(key, message) ==
    HmacOfBlock(PadKey(IF Len(key) > 64 THEN sha1(key) ELSE key), message)

-----------------------------------------------------------------------------
(* Base32 decoding (data_encoding::BASE32.decode, called at lib.rs 40-41): *)
(* RFC 4648 alphabet, padding required, trailing bits checked, no ignored  *)
(* and no translated characters.                                           *)

Symbols ==
    <<"A", "B", "C", "D", "E", "F", "G", "H", "I", "J", "K", "L", "M", "N", "O", "P",
      "Q", "R", "S", "T", "U", "V", "W", "X", "Y", "Z", "2", "3", "4", "5", "6", "7">>

PadChar == "="

IsSymbol(c) == \E i \in 1..Len(Symbols) : Symbols[i] = c

\* the 5-bit value of a symbol
SymbolValue(c) == (CHOOSE i \in 1..Len(Symbols) : Symbols[i] = c) - 1

\* check_pad: the number of characters of an 8-character block that precede
\* its trailing padding; -1 when that number is no length of an encoding
RECURSIVE TrailingPads(_)
TrailingPads(block) ==
    IF block = <<>> \/ block[Len(block)] # PadChar THEN 0
    ELSE 1 + TrailingPads(SubSeq(block, 1, Len(block) - 1))

check_pad(block) ==
    LET len == Len(block) - TrailingPads(block)
    IN  IF len > 0 /\ (5 * len) % 8 < 5 THEN len ELSE -1

\* the bytes of n symbols (n in 2, 4, 5, 7, 8): v holds their values, zero filled to 8
BlockBytes(v, n) ==
    SubSeq(<<v[1] * 8 + (v[2] \div 4),
             (v[2] % 4) * 64 + v[3] * 2 + (v[4] \div 16),
             (v[4] % 16) * 16 + (v[5] \div 2),
             (v[5] % 2) * 128 + v[6] * 4 + (v[7] \div 8),
             (v[7] % 8) * 32 + v[8]>>, 1, (5 * n) \div 8)

\* the bits of the last symbol that belong to no byte
TrailingBits(v, n) == v[n] % (2 ^ ((5 * n) % 8))

\* decode_base_mut on the first n characters of a block
decode_block(block, n) ==
    IF \E i \in 1..n : ~IsSymbol(block[i]) THEN Err("Symbol")
    ELSE LET v == [i \in 1..8 |-> IF i <= n THEN SymbolValue(block[i]) ELSE 0]
         IN  IF TrailingBits(v, n) # 0 THEN Err("Trailing")
             ELSE Ok(BlockBytes(v, n))

\* decode_pad_mut: block after block; a block that does not decode as 8
\* symbols is decoded as a padded block, and decoding goes on after it.
\* st = <<result so far, characters consumed>>
RECURSIVE decode_pad(_, _)
decode_pad(input, st) ==
    IF st[1].tag # "Ok" \/ st[2] >= Len(input) THEN st[1]
    ELSE LET block == SubSeq(input, st[2] + 1, st[2] + 8)
             full == decode_block(block, 8)
             len == check_pad(block)
             part == IF full.tag = "Ok" THEN full
                     ELSE IF len = -1 THEN Err("Padding")
                     ELSE decode_block(block, len)
         IN  decode_pad(input,
                 <<IF part.tag = "Ok" THEN Ok(st[1].val \o part.val) ELSE part, st[2] + 8>>)

\* Encoding::decode: the length check of decode_len, then the blocks
BASE32_decode(input) ==
    IF Len(input) % 8 # 0 THEN Err("Length")
    ELSE decode_pad(input, <<Ok(<<>>), 0>>)

-----------------------------------------------------------------------------
(* The library (lib.rs 6-87).                                              *)

TIME_PERIOD == 30

\* a plain (non-Result) value a function returned
Return(v) == [tag |-> "Return", val |-> v, reason |-> "none"]

\* SystemTime::now().duration_since(UNIX_EPOCH): a SystemTime is its distance
\* dur from the epoch and the side of the epoch it lies on
duration_since_epoch(now) == IF now.before THEN Err(now.dur) ELSE Ok(now.dur)

\* mutant: a clock before the epoch read as second 0 (unwrap_or_default)
epoch_clamped(now) ==
    LET d == duration_since_epoch(now)
    IN  IF d.tag = "Ok" THEN Ok(d.val.secs) ELSE Ok(U64(0))

epoch(now) ==
    LET d == duration_since_epoch(now)
    IN  IF d.tag = "Ok" THEN Ok(d.val.secs) ELSE Err(InvalidTime)

key_to_bytes(key) ==
    LET r == BASE32_decode(key)
    IN  IF r.tag = "Ok" THEN r ELSE Err(InvalidKey)

\* mutant: the raw time, not the counter
begin_period_raw(time) == time

begin_period_with_time(time) == U64Div(time, TIME_PERIOD)

\* the + of line 86 overflows (a panic in a debug build, wrapping in release)
end_period_overflows(time) == U64Add(begin_period_with_time(time), TIME_PERIOD)[1] # 0

\* mutant: the period added to the epoch seconds
end_period_of_seconds(time) == U64Add(time, TIME_PERIOD)[2]

end_period_with_time(time) == U64Add(begin_period_with_time(time), TIME_PERIOD)[2]

\* mutant: a mask one bit too wide
hash_offset_5_bits(hash) == BitAnd(hash[19 + 1], 31)

\* hash[19] & 0xf
hash_offset(hash) == BitAnd(hash[19 + 1], 15)

\* one of the four indexings of lines 48-51 is out of bounds (a panic)
hash_index_panics(hash) == \E k \in 0..3 : hash_offset(hash) + k >= Len(hash)

hash_to_code(hash) ==
    LET offset == hash_offset(hash)
    IN  BitOr(BitOr(BitOr(Shl(BitAnd(hash[offset + 0 + 1], 127), 24),
                          Shl(BitAnd(hash[offset + 1 + 1], 255), 16)),
                    Shl(BitAnd(hash[offset + 2 + 1], 255), 8)),
              BitAnd(hash[offset + 3 + 1], 255))

\* mutant: one zero short
last_five_digits_of_num(num) == num % 100000

last_six_digits_of_num(num) == num % 1000000

DigitChars == <<"0", "1", "2", "3", "4", "5", "6", "7", "8", "9">>

\* Display of an unsigned integer: its decimal digits, no leading zero
RECURSIVE to_decimal(_)
to_decimal(n) ==
    IF n < 10 THEN <<DigitChars[n + 1]>>
    ELSE Append(to_decimal(n \div 10), DigitChars[(n % 10) + 1])

\* the format spec {:fill>width}: right-aligned, filled on the left up to width
pad_left(s, fill, width) ==
    IF Len(s) >= width THEN s ELSE [i \in 1..(width - Len(s)) |-> fill] \o s

\* mutant: no padding ({} for {:0>6})
code_to_str_unpadded(c) == to_decimal(last_six_digits_of_num(c))

code_to_str(c) == pad_left(to_decimal(last_six_digits_of_num(c)), "0", 6)

-----------------------------------------------------------------------------
(* The inputs the calls are made with.                                     *)

\* the key, time and result of the test generate_valid_otp (lib.rs 93-100)
KEY == <<"T", "K", "I", "3", "J", "4", "M", "D", "6", "H", "B", "V", "V", "L", "A", "B">>
TIME == 1578082942
RESULT == <<"0", "7", "5", "7", "6", "7">>

\* texts that decode
EmptyKey == <<>>
PaddedKey == <<"M", "Y", "=", "=", "=", "=", "=", "=">>
\* a padded block followed by a further block: no RFC 4648 encoding, yet decoded
ConcatKey == <<"A", "A", "=", "=", "=", "=", "=", "=", "A", "A", "=", "=", "=", "=", "=", "=">>

\* texts that do not decode: a digit outside the alphabet, lowercase letters,
\* a length that is no multiple of 8, padding before a symbol, a padded block
\* of an impossible length, non-zero trailing bits
DigitOneKey == <<"T", "K", "I", "3", "J", "4", "M", "D", "6", "H", "B", "V", "V", "L", "A", "1">>
LowerKey == <<"t", "k", "i", "3", "j", "4", "m", "d">>
UnpaddedKey == <<"M", "Y">>
MidPadKey == <<"M", "Y", "=", "A", "=", "=", "=", "=">>
PadCountKey == <<"M", "Y", "A", "=", "=", "=", "=", "=">>
TrailingKey == <<"M", "Z", "=", "=", "=", "=", "=", "=">>

Keys ==
    {KEY, EmptyKey, PaddedKey, ConcatKey,
     DigitOneKey, LowerKey, UnpaddedKey, MidPadKey, PadCountKey, TrailingKey}

\* the number of 30-second windows after the window of TIME whose first and
\* last second are inputs
MaxWindow == 1

WindowStart(w) == ((TIME \div TIME_PERIOD) + w) * TIME_PERIOD

Times ==
    {U64(TIME), U64(0), U64(TIME_PERIOD - 1), U64(TIME_PERIOD), U64_MAX}
        \cup UNION {{U64(WindowStart(w)), U64(WindowStart(w) + TIME_PERIOD - 1)} : w \in 0..MaxWindow}

\* the values of the system clock: on or after the epoch, with and without a
\* fraction of a second, and before the epoch
ClockValues ==
    {[before |-> FALSE, dur |-> [secs |-> t, nanos |-> n]] :
        t \in {U64(TIME), U64(WindowStart(0)), U64(0)}, n \in {0, 500000000}}
    \cup {[before |-> TRUE, dur |-> d] :
        d \in {[secs |-> U64(0), nanos |-> 500000000],
               [secs |-> U64(1), nanos |-> 0],
               [secs |-> U64(TIME), nanos |-> 0]}}

\* the clock of the specifications that read no clock
ClockAtTime == [before |-> FALSE, dur |-> [secs |-> U64(TIME), nanos |-> 0]]

-----------------------------------------------------------------------------
(* hash_time, otp and the period functions.                                *)

\* The digests of the keys and counters the inputs lead to, computed once.
HashTimeTable ==
    {<<kc[1], kc[2], hmac_sha1(kc[1], to_be_bytes(kc[2]))>> :
        kc \in {<<key_to_bytes(k).val, begin_period_with_time(t)>> :
                   k \in {x \in Keys : key_to_bytes(x).tag = "Ok"},
                   t \in Times \cup {c.dur.secs : c \in ClockValues}}}

\* the digest of the entries found in the table, computed when there is none
DigestOf(found, key, time) ==
    IF found = {} THEN hmac_sha1(key, to_be_bytes(time)) ELSE (CHOOSE e \in found : TRUE)[3]

\* hmacsha1::hmac_sha1(key, &time.to_be_bytes()), looked up when it was computed before
hash_time(key, time) ==
    DigestOf({e \in HashTimeTable : e[1] = key /\ e[2] = time}, key, time)

\* lines 68-70: the digest truncated, formatted and returned
code_of_hash(time_hash) ==
    IF hash_index_panics(time_hash) THEN Panic("index out of bounds")
    ELSE Ok(code_to_str(hash_to_code(time_hash)))

otp_with_time(key, epoch_time) ==
    LET k == key_to_bytes(key)
    IN  IF k.tag # "Ok" THEN k
        ELSE code_of_hash(hash_time(k.val, begin_period_with_time(epoch_time)))

\* mutant: the key decoded before the clock is read
otp_key_first(key, now) ==
    LET k == key_to_bytes(key)
        e == epoch(now)
    IN  IF k.tag # "Ok" THEN k ELSE IF e.tag # "Ok" THEN e ELSE otp_with_time(key, e.val)

otp(key, now) ==
    LET e == epoch(now)
    IN  IF e.tag # "Ok" THEN e ELSE otp_with_time(key, e.val)

begin_period(now) ==
    LET e == epoch(now)
    IN  IF e.tag # "Ok" THEN e ELSE Ok(begin_period_with_time(e.val))

\* what a call of end_period_with_time can do: return the sum, or, when the
\* addition overflows, panic (debug build) or return the wrapped sum (release)
end_period_with_time_outcomes(time) ==
    {Return(end_period_with_time(time))}
        \cup (IF end_period_overflows(time) THEN {Panic("overflow")} ELSE {})

end_period_outcomes(now) ==
    LET e == epoch(now)
    IN  IF e.tag # "Ok" THEN {e}
        ELSE {IF o.tag = "Return" THEN Ok(o.val) ELSE o :
                 o \in end_period_with_time_outcomes(e.val)}

-----------------------------------------------------------------------------
(* The sequential caller: one call after the other, the clock changing in  *)
(* between.                                                                *)

NoKey == <<>>
NoTime == <<>>
NoClock == [before |-> FALSE, dur |-> [secs |-> <<>>, nanos |-> 0]]

Call(op, key, time, now, ret) ==
    [op |-> op, key |-> key, time |-> time, now |-> now, ret |-> ret]

NoCall == Call("none", NoKey, NoTime, NoClock, Return(<<>>))

\* a thread: the call it runs, the line it is at, the locals of otp_with_time
Thread(pc, op, key, time, time_hash, c, code_str, ret) ==
    [pc |-> pc, op |-> op, key |-> key, time |-> time, time_hash |-> time_hash,
     code |-> c, code_str |-> code_str, ret |-> ret]

NumThreads == 2
Threads == 1..NumThreads

ThIdle == [t \in Threads |-> Thread("idle", "none", NoKey, NoTime, <<>>, 0, <<>>, Return(<<>>))]

Pipe(stage, hash, c, code_str) ==
    [stage |-> stage, hash |-> hash, code |-> c, code_str |-> code_str]

PipeIdle == Pipe("idle", <<>>, 0, <<>>)

Init ==
    /\ clock \in ClockValues
    /\ cur = NoCall
    /\ th = ThIdle
    /\ pipe = PipeIdle

\* the environment sets the system clock
SetClock(c) ==
    /\ c # clock
    /\ clock' = c
    /\ UNCHANGED <<cur, th, pipe>>

CallOtp(key) ==
    /\ cur' = Call("otp", key, NoTime, clock, otp(key, clock))
    /\ UNCHANGED <<clock, th, pipe>>

CallOtpWithTime(key, time) ==
    /\ cur' = Call("otp_with_time", key, time, NoClock, otp_with_time(key, time))
    /\ UNCHANGED <<clock, th, pipe>>

CallBeginPeriod ==
    /\ cur' = Call("begin_period", NoKey, NoTime, clock, begin_period(clock))
    /\ UNCHANGED <<clock, th, pipe>>

CallBeginPeriodWithTime(time) ==
    /\ cur' = Call("begin_period_with_time", NoKey, time, NoClock,
                   Return(begin_period_with_time(time)))
    /\ UNCHANGED <<clock, th, pipe>>

CallEndPeriod ==
    /\ \E r \in end_period_outcomes(clock) :
           cur' = Call("end_period", NoKey, NoTime, clock, r)
    /\ UNCHANGED <<clock, th, pipe>>

CallEndPeriodWithTime(time) ==
    /\ \E r \in end_period_with_time_outcomes(time) :
           cur' = Call("end_period_with_time", NoKey, time, NoClock, r)
    /\ UNCHANGED <<clock, th, pipe>>

Next ==
    \/ \E c \in ClockValues : SetClock(c)
    \/ \E key \in Keys : CallOtp(key)
    \/ \E key \in Keys, time \in Times : CallOtpWithTime(key, time)
    \/ CallBeginPeriod
    \/ \E time \in Times : CallBeginPeriodWithTime(time)
    \/ CallEndPeriod
    \/ \E time \in Times : CallEndPeriodWithTime(time)

Spec == Init /\ [][Next]_vars

-----------------------------------------------------------------------------
(* Concurrent callers: every thread runs calls of the functions that take  *)
(* the time as an argument, one line of the function at a time.            *)

ThreadKeys == {KEY, DigitOneKey}
ThreadTimes == {U64(TIME), U64(WindowStart(0) + TIME_PERIOD - 1), U64(WindowStart(1))}

InitThreads ==
    /\ clock = ClockAtTime
    /\ cur = NoCall
    /\ th = ThIdle
    /\ pipe = PipeIdle

\* mutant: the digest kept in one buffer that the threads share
time_hash_shared(t) ==
    LET o == {u \in Threads \ {t} : Len(th[u].time_hash) = 20}
    IN  IF o = {} THEN th[t].time_hash ELSE th[CHOOSE u \in o : TRUE].time_hash

\* the local time_hash that line 68 of thread t reads
time_hash_of(t) == th[t].time_hash

Invoke(t, op, key, time) ==
    /\ th[t].pc \in {"idle", "done"}
    /\ th' = [th EXCEPT ![t] = Thread("called", op, key, time, <<>>, 0, <<>>, Return(<<>>))]
    /\ UNCHANGED <<clock, cur, pipe>>

\* line 67: decode the key (return the error if there is one), hash the counter
Line67(t) ==
    /\ th[t].pc = "called" /\ th[t].op = "otp_with_time"
    /\ LET k == key_to_bytes(th[t].key)
       IN  th' = [th EXCEPT ![t] =
                    IF k.tag # "Ok"
                    THEN [@ EXCEPT !.pc = "done", !.ret = k]
                    ELSE [@ EXCEPT !.pc = "line68",
                                   !.time_hash = hash_time(k.val, begin_period_with_time(th[t].time))]]
    /\ UNCHANGED <<clock, cur, pipe>>

\* line 68: truncate the digest
Line68(t) ==
    /\ th[t].pc = "line68"
    /\ th' = [th EXCEPT ![t] =
                 IF hash_index_panics(time_hash_of(t))
                 THEN [@ EXCEPT !.pc = "done", !.ret = Panic("index out of bounds")]
                 ELSE [@ EXCEPT !.pc = "line69", !.code = hash_to_code(time_hash_of(t))]]
    /\ UNCHANGED <<clock, cur, pipe>>

\* line 69: format the code
Line69(t) ==
    /\ th[t].pc = "line69"
    /\ th' = [th EXCEPT ![t] = [@ EXCEPT !.pc = "line70", !.code_str = code_to_str(th[t].code)]]
    /\ UNCHANGED <<clock, cur, pipe>>

\* line 70: return it
Line70(t) ==
    /\ th[t].pc = "line70"
    /\ th' = [th EXCEPT ![t] = [@ EXCEPT !.pc = "done", !.ret = Ok(th[t].code_str)]]
    /\ UNCHANGED <<clock, cur, pipe>>

\* line 78, the body of begin_period_with_time
Line78(t) ==
    /\ th[t].pc = "called" /\ th[t].op = "begin_period_with_time"
    /\ th' = [th EXCEPT ![t] =
                 [@ EXCEPT !.pc = "done", !.ret = Return(begin_period_with_time(th[t].time))]]
    /\ UNCHANGED <<clock, cur, pipe>>

\* line 86, the body of end_period_with_time
Line86(t) ==
    /\ th[t].pc = "called" /\ th[t].op = "end_period_with_time"
    /\ \E r \in end_period_with_time_outcomes(th[t].time) :
           th' = [th EXCEPT ![t] = [@ EXCEPT !.pc = "done", !.ret = r]]
    /\ UNCHANGED <<clock, cur, pipe>>

NextThreads ==
    \/ \E t \in Threads, key \in ThreadKeys, time \in ThreadTimes :
           Invoke(t, "otp_with_time", key, time)
    \/ \E t \in Threads, time \in ThreadTimes : Invoke(t, "begin_period_with_time", NoKey, time)
    \/ \E t \in Threads, time \in ThreadTimes : Invoke(t, "end_period_with_time", NoKey, time)
    \/ \E t \in Threads : Line67(t)
    \/ \E t \in Threads : Line68(t)
    \/ \E t \in Threads : Line69(t)
    \/ \E t \in Threads : Line70(t)
    \/ \E t \in Threads : Line78(t)
    \/ \E t \in Threads : Line86(t)

SpecThreads == InitThreads /\ [][NextThreads]_vars

-----------------------------------------------------------------------------
(* The truncation pipeline on its own: a 20-byte digest goes through       *)
(* hash_to_code and code_to_str (lib.rs 68-69).                            *)

\* the fill patterns of the digests: 0 is all 0x00, 1 is all 0xff, the others ramps
MaxFill == 3

FillByte(r, i) ==
    IF r = 0 THEN 0 ELSE IF r = 1 THEN 255 ELSE (i * (2 * r + 33) + 7 * r) % 256

\* the last byte of a digest: every low nibble, under several high nibbles
LastBytes == {n + 16 * h : n \in 0..15, h \in {0, 9, 15}}

FilledDigest(r, last) == [i \in 1..20 |-> IF i = 20 THEN last ELSE FillByte(r, i)]

\* zero but for 42 in the least significant byte of the window
SmallDigest(last) == [i \in 1..20 |-> IF i = 20 THEN last ELSE IF i = (last % 16) + 4 THEN 42 ELSE 0]

Digests ==
    {FilledDigest(r, last) : r \in 0..MaxFill, last \in LastBytes}
        \cup {SmallDigest(last) : last \in LastBytes}
        \cup {e[3] : e \in HashTimeTable}

InitPipeline ==
    /\ clock = ClockAtTime
    /\ cur = NoCall
    /\ th = ThIdle
    /\ pipe \in {Pipe("hash", d, 0, <<>>) : d \in Digests}

Truncate ==
    /\ pipe.stage = "hash"
    /\ pipe' = IF hash_index_panics(pipe.hash)
               THEN [pipe EXCEPT !.stage = "panic"]
               ELSE [pipe EXCEPT !.stage = "code", !.code = hash_to_code(pipe.hash)]
    /\ UNCHANGED <<clock, cur, th>>

Format ==
    /\ pipe.stage = "code"
    /\ pipe' = [pipe EXCEPT !.stage = "str", !.code_str = code_to_str(pipe.code)]
    /\ UNCHANGED <<clock, cur, th>>

NextPipeline == Truncate \/ Format

SpecPipeline == InitPipeline /\ [][NextPipeline]_vars

-----------------------------------------------------------------------------
(* What the properties are stated with.                                    *)

AlphabetChars == {Symbols[i] : i \in 1..Len(Symbols)}

\* the number of "=" a text ends with
RECURSIVE PadsAtEnd(_)
PadsAtEnd(text) ==
    IF text = <<>> \/ text[Len(text)] # "=" THEN 0
    ELSE 1 + PadsAtEnd(SubSeq(text, 1, Len(text) - 1))

\* the bits of the last symbol of a group of n symbols that no byte takes
UnusedBits(n) == IF n = 2 THEN 2 ELSE IF n = 4 THEN 4 ELSE IF n = 5 THEN 1 ELSE IF n = 7 THEN 3 ELSE 0

\* an 8-character group as RFC 4648 section 6 writes it: 8 symbols, or 2, 4, 5
\* or 7 symbols whose unused bits are zero, then "=" up to 8 characters
CanonicalGroup(g) ==
    LET n == Len(g) - PadsAtEnd(g)
    IN  /\ Len(g) = 8
        /\ n \in {2, 4, 5, 7, 8}
        /\ \A i \in 1..n : g[i] \in AlphabetChars
        /\ (CHOOSE v \in 0..31 : Symbols[v + 1] = g[n]) % (2 ^ UnusedBits(n)) = 0

Group(text, j) == SubSeq(text, 8 * j - 7, 8 * j)

\* the text is the RFC 4648 encoding of some bytes: groups of 8 symbols, the
\* last one possibly padded
ValidBase32(text) ==
    /\ Len(text) % 8 = 0
    /\ \A j \in 1..(Len(text) \div 8) :
           /\ CanonicalGroup(Group(text, j))
           /\ j < Len(text) \div 8 => PadsAtEnd(Group(text, j)) = 0

\* a string of six ASCII digits
IsSixDigits(str) == Len(str) = 6 /\ \A i \in 1..6 : \E d \in 1..10 : DigitChars[d] = str[i]

\* the number a string of digits is the decimal numeral of
RECURSIVE DecimalValue(_)
DecimalValue(str) ==
    IF str = <<>> THEN 0
    ELSE 10 * DecimalValue(SubSeq(str, 1, Len(str) - 1))
             + (CHOOSE d \in 0..9 : DigitChars[d + 1] = str[Len(str)])

\* x * m + a for small m and a: <<carry out of the top byte, the 8 bytes>>
RECURSIVE U64MulAddStep(_, _, _)
U64MulAddStep(x, m, st) ==
    LET i == Len(x) - Len(st[2])
    IN  IF i < 1 THEN st
        ELSE LET p == x[i] * m + st[1]
             IN  U64MulAddStep(x, m, <<p \div 256, <<p % 256>> \o st[2]>>)

U64MulAdd(x, m, a) == U64MulAddStep(x, m, <<a, (<<>>)>>)

\* q is the floor of t / 30: t = 30 q + r with 0 <= r < 30, in u64 without overflow
IsFloorOfDiv30(q, t) == \E r \in 0..29 : U64MulAdd(q, 30, r) = <<0, t>>

\* the value of a u64 below 2^31
NatOf(u) == ((u[5] * 256 + u[6]) * 256 + u[7]) * 256 + u[8]

-----------------------------------------------------------------------------
(* The properties.                                                         *)

\* C1: a call of otp_with_time with a valid Base32 secret, at any epoch time,
\* returns Ok with a string of exactly 6 ASCII digits; it returns no error and
\* does not panic.
C1_SixDigits ==
    (cur.op = "otp_with_time" /\ ValidBase32(cur.key))
        => (cur.ret.tag = "Ok" /\ IsSixDigits(cur.ret.val))

C1_Witness ==
    /\ cur.op = "otp_with_time" /\ cur.key = PaddedKey /\ cur.time = U64_MAX
    /\ cur.ret.tag = "Ok" /\ IsSixDigits(cur.ret.val)

\* C2: two calls of otp_with_time with the same secret and times t1, t2 such
\* that t1 div 30 = t2 div 30 return the same result.
C2_WindowStability ==
    \A t1, t2 \in Threads :
        (/\ th[t1].pc = "done" /\ th[t1].op = "otp_with_time"
         /\ th[t2].pc = "done" /\ th[t2].op = "otp_with_time"
         /\ th[t1].key = th[t2].key
         /\ NatOf(th[t1].time) \div 30 = NatOf(th[t2].time) \div 30)
            => th[t1].ret = th[t2].ret

C2_Witness ==
    \E t1, t2 \in Threads :
        /\ th[t1].pc = "done" /\ th[t1].op = "otp_with_time"
        /\ th[t2].pc = "done" /\ th[t2].op = "otp_with_time"
        /\ th[t1].key = KEY /\ th[t2].key = KEY
        /\ th[t1].time # th[t2].time
        /\ NatOf(th[t1].time) \div 30 = NatOf(th[t2].time) \div 30
        /\ th[t1].ret.tag = "Ok" /\ th[t1].ret = th[t2].ret

\* C3: a call of otp_with_time with a secret text that is not valid Base32
\* (a character outside the RFC 4648 alphabet, such as the digit 1 or a
\* lowercase letter, or invalid padding) returns, at every epoch time, the
\* error InvalidKey and no code string.
C3_InvalidKey ==
    (cur.op = "otp_with_time" /\ ~ValidBase32(cur.key))
        => cur.ret = Err(InvalidKey)

\* C4: otp_with_time with the secret "TKI3J4MD6HBVVLAB" and the epoch time
\* 1578082942 returns the code "075767".
C4_TestVector ==
    (cur.op = "otp_with_time" /\ cur.key = KEY /\ cur.time = U64(TIME))
        => cur.ret = Ok(<<"0", "7", "5", "7", "6", "7">>)

C4_Witness ==
    /\ cur.op = "otp_with_time" /\ cur.key = KEY /\ cur.time = U64(TIME)
    /\ cur.ret = Ok(RESULT)

\* C5: begin_period_with_time(t) is the floor of t / 30, and
\* end_period_with_time(t) returns begin_period_with_time(t) + 30, the sum
\* fitting a u64: neither call panics, for any t up to u64::MAX.
C5_EndIsBeginPlus30 ==
    /\ cur.op = "begin_period_with_time"
           => (cur.ret.tag = "Return" /\ IsFloorOfDiv30(cur.ret.val, cur.time))
    /\ cur.op = "end_period_with_time"
           => (/\ cur.ret.tag = "Return"
               /\ IsFloorOfDiv30(begin_period_with_time(cur.time), cur.time)
               /\ U64MulAdd(begin_period_with_time(cur.time), 1, 30) = <<0, cur.ret.val>>)

C5_Witness ==
    /\ cur.op = "end_period_with_time" /\ cur.time = U64_MAX
    /\ cur.ret.tag = "Return"
    /\ U64MulAdd(begin_period_with_time(cur.time), 1, 30) = <<0, cur.ret.val>>

\* C6: otp(secret) returns what otp_with_time(secret, t) returns when the
\* clock read gives the second t, and the error InvalidTime when the clock is
\* before the Unix epoch (no panic, no time clamped to 0).
C6_OtpReadsClock ==
    cur.op = "otp"
        => IF cur.now.before
           THEN cur.ret = Err(InvalidTime)
           ELSE cur.ret = otp_with_time(cur.key, cur.now.dur.secs)

C6_Witness ==
    /\ cur.op = "otp" /\ ~cur.now.before /\ cur.now.dur.nanos > 0
    /\ cur.key = KEY /\ cur.now.dur.secs = U64(TIME)
    /\ cur.ret = Ok(RESULT)

\* C7: under every interleaving of the threads' calls of otp_with_time,
\* begin_period_with_time and end_period_with_time, a finished call has
\* returned what the function returns for its arguments on its own, and two
\* finished calls with the same arguments have returned the same.
C7_Independent ==
    /\ \A t \in Threads :
           th[t].pc = "done" =>
               /\ th[t].op = "otp_with_time" => th[t].ret = otp_with_time(th[t].key, th[t].time)
               /\ th[t].op = "begin_period_with_time"
                      => th[t].ret = Return(begin_period_with_time(th[t].time))
               /\ th[t].op = "end_period_with_time"
                      => th[t].ret = Return(end_period_with_time(th[t].time))
    /\ \A t1, t2 \in Threads :
           (/\ th[t1].pc = "done" /\ th[t2].pc = "done"
            /\ th[t1].op = th[t2].op /\ th[t1].key = th[t2].key /\ th[t1].time = th[t2].time)
               => th[t1].ret = th[t2].ret

\* two calls that ran interleaved: the second was between lines 67 and 70
\* while the first, with another time, ran to its end
C7_Witness ==
    \E t1, t2 \in Threads :
        /\ t1 # t2
        /\ th[t1].pc = "done" /\ th[t1].op = "otp_with_time" /\ th[t1].ret.tag = "Ok"
        /\ th[t2].pc = "line69" /\ th[t2].op = "otp_with_time"
        /\ th[t1].time # th[t2].time
        /\ th[t1].time_hash # th[t2].time_hash

\* C8: for a 20-byte digest, offset = digest[19] & 0x0f is in 0..15, the
\* indexes offset..offset+3 are in 0..19 (no panic), and hash_to_code returns
\* the big-endian value of digest[offset..offset+4] with the top bit cleared,
\* a value in 0..2^31-1.
C8_Truncation ==
    /\ pipe.stage # "panic"
    /\ pipe.stage \in {"code", "str"} =>
           LET offset == pipe.hash[20] % 16
           IN  /\ offset \in 0..15 /\ offset + 3 <= 19
               /\ pipe.code = (pipe.hash[offset + 1] % 128) * 16777216
                                  + pipe.hash[offset + 2] * 65536
                                  + pipe.hash[offset + 3] * 256
                                  + pipe.hash[offset + 4]
               /\ pipe.code \in 0..2147483647

\* offset 15, the top bit of the window set, the largest value
C8_Witness ==
    /\ pipe.stage = "code" /\ pipe.hash[20] = 255 /\ pipe.hash[16] = 255
    /\ pipe.code = 2147483647

\* C9: code_to_str(v) is a string of exactly 6 ASCII digits whose decimal
\* value is v mod 1,000,000; the value 42 gives "000042".
C9_Formatting ==
    pipe.stage = "str" =>
        /\ IsSixDigits(pipe.code_str)
        /\ DecimalValue(pipe.code_str) = pipe.code % 1000000
        /\ pipe.code = 42 => pipe.code_str = <<"0", "0", "0", "0", "4", "2">>

C9_Witness == pipe.stage = "str" /\ pipe.code = 42 /\ pipe.code_str = <<"0", "0", "0", "0", "4", "2">>

\* C10: otp returns InvalidTime for every secret text, valid or not, when the
\* clock is before the epoch, and InvalidKey only after a clock read that
\* succeeded; begin_period and end_period return InvalidTime or else
\* begin_period_with_time(t) and end_period_with_time(t) of the time t read.
C10_ErrorPrecedence ==
    /\ cur.op = "otp" =>
           /\ cur.now.before => cur.ret = Err(InvalidTime)
           /\ cur.ret = Err(InvalidKey) => ~cur.now.before
    /\ cur.op = "begin_period" =>
           cur.ret = IF cur.now.before THEN Err(InvalidTime)
                     ELSE Ok(begin_period_with_time(cur.now.dur.secs))
    /\ cur.op = "end_period" =>
           cur.ret = IF cur.now.before THEN Err(InvalidTime)
                     ELSE Ok(end_period_with_time(cur.now.dur.secs))

C10_Witness ==
    /\ cur.op = "otp" /\ cur.now.before /\ cur.key = LowerKey
    /\ key_to_bytes(cur.key) = Err(InvalidKey)
    /\ cur.ret = Err(InvalidTime)

====
